---- MODULE Spec2Model ----
(***************************************************************************)
(* Model of frontend/app/providers.tsx: the Providers composition and the  *)
(* JoinGameButton form (React state isLoading / errors, the async onSubmit *)
(* handler split at its single await, and the rendered element tree).      *)
(*                                                                         *)
(* Strings the code inspects character by character (the field text, the   *)
(* game ID, the navigation path) are sequences of one-character strings.   *)
(* JavaScript runs each synchronous stretch of a handler to completion, so *)
(* one action is the stretch up to the await (Submit) and one is the       *)
(* continuation after the lookup settles (LookupResolves / LookupRejects). *)
(***************************************************************************)
EXTENDS Naturals, Sequences, FiniteSets, TLC

\* Longest raw field text the model enumerates.
MaxLen == 6
\* Number of onSubmit invocations that may be suspended at the await at once.
MaxHandlers == 2

\* Characters of the raw field text: a lower-case letter, an upper-case
\* letter, white space and a character that is neither.
Alphabet == {"a", "B", " ", "1"}
WhiteSpace == {" "}
Letters == {"a", "A", "b", "B"}

\* What FormData.get("GameID") yields: null (present = FALSE) when the submitted
\* form has no such entry, otherwise the entry's text.
FormValue(present, text) ==
  [present |-> present, text |-> IF present THEN text ELSE <<>>]

----------------------------------------------------------------------------
\* String.prototype.trim and String.prototype.toUpperCase

RECURSIVE TrimStart(_)
TrimStart(s) ==
  IF s # <<>> /\ Head(s) \in WhiteSpace THEN TrimStart(Tail(s)) ELSE s

RECURSIVE TrimEnd(_)
TrimEnd(s) ==
  IF s # <<>> /\ s[Len(s)] \in WhiteSpace THEN TrimEnd(SubSeq(s, 1, Len(s) - 1)) ELSE s

Trim(s) == TrimEnd(TrimStart(s))

UpperChar(c) ==
  CASE c = "a" -> "A"
    [] c = "b" -> "B"
    [] OTHER -> c

ToUpperCase(s) == [i \in DOMAIN s |-> UpperChar(s[i])]

\* formData.get("GameID")?.toString().trim().toUpperCase() ?? ""
NormalizeSwapCase(fv) ==
  IF fv.present
  THEN [i \in DOMAIN Trim(fv.text) |->
          IF Trim(fv.text)[i] = "B" THEN "b" ELSE UpperChar(Trim(fv.text)[i])]
  ELSE <<>>

Normalize(fv) ==
  IF fv.present THEN ToUpperCase(Trim(fv.text)) ELSE <<>>

\* validateGameID of lib/gameFunctions: exactly 5 characters, all alphabetic.
validateGameID(candidate) ==
  /\ Len(candidate) = 5
  /\ \A i \in DOMAIN candidate : candidate[i] \in Letters

----------------------------------------------------------------------------
\* The error maps the handler passes to setErrors.

EmptyErrors == [k \in {} |-> ""]
ShapeError == [GameID |-> "Game IDs need to be a 5 letter string."]
InvalidError == [GameID |-> "Invalid game ID"]

\* What the awaited getGameMetadata promise can settle with.
Trivia == <<"t", "r", "i", "v", "i", "a">>
Chess == <<"c", "h", "e", "s", "s">>
GameTypes == {Trivia, Chess}

NullValue == [kind |-> "null", has_type |-> FALSE, game_type |-> <<>>]
UndefinedValue == [kind |-> "undefined", has_type |-> FALSE, game_type |-> <<>>]
MetadataObjects ==
  {[kind |-> "object", has_type |-> TRUE, game_type |-> t] : t \in GameTypes}
   \cup {[kind |-> "object", has_type |-> FALSE, game_type |-> <<>>]}
LookupResults == {NullValue, UndefinedValue} \cup MetadataObjects
NoResult == [kind |-> "none", has_type |-> FALSE, game_type |-> <<>>]

\* if (gameMetadata)
IsTruthy(value) == value.kind = "object"

\* ${gameMetadata.game_type}: a missing property interpolates as "undefined".
Interpolate(value) ==
  IF value.has_type THEN value.game_type
  ELSE <<"u", "n", "d", "e", "f", "i", "n", "e", "d">>

\* `/${gameMetadata.game_type}/${gameID}`
NavigationPathNoID(metadata, gameID) ==
  <<"/">> \o Interpolate(metadata) \o <<"/">>

NavigationPath(metadata, gameID) ==
  <<"/">> \o Interpolate(metadata) \o <<"/">> \o gameID

----------------------------------------------------------------------------
VARIABLES
  field,       \* the text in the GameID input (the DOM's, the input is uncontrolled)
  isLoading,   \* useState(false)
  errors,      \* useState({})
  handlers,    \* the onSubmit invocations: idle slot, or suspended at the await
  last         \* what the most recent handler stretch did (its calls, in order)

vars == <<field, isLoading, errors, handlers, last>>

Slots == 1 .. MaxHandlers
\* errorsAtSubmit remembers the error map the attempt started from.
IdleHandler == [pc |-> "idle", gameID |-> <<>>, errorsAtSubmit |-> EmptyErrors]
Pending == {h \in Slots : handlers[h].pc = "awaiting"}
FreeSlots == {h \in Slots : handlers[h].pc = "idle"}

NoStep ==
  [pushThrew |-> FALSE, form |-> FormValue(FALSE, <<>>), gameID |-> <<>>, lookups |-> <<>>, pushes |-> <<>>,
   loadingSets |-> <<>>, errorSets |-> <<>>, errorsBefore |-> EmptyErrors,
   attemptErrorsBefore |-> EmptyErrors, loadingBefore |-> FALSE,
   result |-> NoResult, promise |-> "none"]

Init ==
  /\ field = <<>>
  /\ isLoading = FALSE
  /\ errors = EmptyErrors
  /\ handlers = [h \in Slots |-> IdleHandler]
  /\ last = [op |-> "mount"] @@ NoStep

----------------------------------------------------------------------------
\* The rendered tree. An element is [type, props, children].

Element(type, props, children) ==
  [type |-> type, props |-> props, children |-> children]

\* <Input isDisabled={isLoading} ... />
InputIsDisabled == isLoading

\* <Button isLoading={isLoading} type="submit">
ButtonIsLoadingStuck == FALSE

ButtonIsLoading == isLoading

\* JoinGameButton's return value.
JoinGameButtonView ==
  Element("Form", [validationErrors |-> errors],
          << Element("Input", [isDisabled |-> InputIsDisabled, name |-> "GameID"], <<>>),
             Element("Button", [isLoading |-> ButtonIsLoading, type |-> "submit"], <<>>) >>)

\* Providers' return value for the given children.
ProvidersGameOutsideUser(children) ==
  Element("HeroUIProvider", [navigate |-> "router.push"],
          << Element("ToastProvider", <<>>, <<>>),
             Element("GameProvider", <<>>,
                     << Element("UserProvider", <<>>, children) >>) >>)

Providers(children) ==
  Element("HeroUIProvider", [navigate |-> "router.push"],
          << Element("ToastProvider", <<>>, <<>>),
             Element("UserProvider", <<>>,
                     << Element("GameProvider", <<>>, children) >>) >>)

\* The application tree: the form rendered as the children of Providers.
AppView == Providers(<<JoinGameButtonView>>)

----------------------------------------------------------------------------
\* onSubmit, lines 34-52: the synchronous stretch up to the await.

\* The form can be submitted from a control that is not disabled.
SubmitAlwaysEnabled == TRUE

SubmitEnabled == ~InputIsDisabled \/ ~ButtonIsLoading

\* if (!validateGameID(gameID)) { setErrors(...); return; }
FailsShapeCheckNever(gameID) == FALSE

FailsShapeCheck(gameID) == ~validateGameID(gameID)

\* setErrors({}) before the lookup
ErrorsOnIssueKept(current) == current

ErrorsOnIssue(current) == EmptyErrors

\* setErrors({ GameID: "Invalid game ID" }) in the else branch
ErrorsOnEmptyResultNone == EmptyErrors

ErrorsOnEmptyResult == InvalidError

\* setErrors({ GameID: "Invalid game ID" }) in the catch block
ErrorsOnCatchNone == EmptyErrors

ErrorsOnCatch == InvalidError

\* setIsLoading(false) in the finally block
LoadingOnFinallyStuck == TRUE

\* A finally block that keeps loading while another lookup is in flight.
LoadingOnFinallyCounted == Cardinality(Pending) > 1

LoadingOnFinally == FALSE

LastOf(seq, default) == IF seq = <<>> THEN default ELSE seq[Len(seq)]

\* The user edits the input, which an input that is disabled does not allow.
TypeChar(c) ==
  /\ ~InputIsDisabled
  /\ Len(field) < MaxLen
  /\ field' = Append(field, c)
  /\ last' = [op |-> "edit"] @@ NoStep
  /\ UNCHANGED <<isLoading, errors, handlers>>

ClearField ==
  /\ ~InputIsDisabled
  /\ field # <<>>
  /\ field' = <<>>
  /\ last' = [op |-> "edit"] @@ NoStep
  /\ UNCHANGED <<isLoading, errors, handlers>>

\* onSubmit called with a submit event whose form data holds fv.
onSubmit(fv) ==
  /\ FreeSlots # {}
  /\ LET gameID == Normalize(fv)
         h == CHOOSE f \in FreeSlots : \A g \in FreeSlots : f <= g
         step == [op |-> "submit", form |-> fv, gameID |-> gameID,
                  pushes |-> <<>>, errorsBefore |-> errors, result |-> NoResult,
                  attemptErrorsBefore |-> errors, loadingBefore |-> isLoading]
     IN IF FailsShapeCheck(gameID)
        THEN /\ errors' = ShapeError
             /\ UNCHANGED <<field, isLoading, handlers>>
             /\ last' = step @@ [lookups |-> <<>>, loadingSets |-> <<>>,
                                 errorSets |-> <<ShapeError>>, promise |-> "fulfilled"]
                         @@ NoStep
        ELSE /\ isLoading' = TRUE
             /\ errors' = ErrorsOnIssue(errors)
             /\ handlers' = [handlers EXCEPT ![h] = [pc |-> "awaiting", gameID |-> gameID,
                                                     errorsAtSubmit |-> errors]]
             /\ last' = step @@ [lookups |-> <<gameID>>, loadingSets |-> <<TRUE>>,
                                 errorSets |-> <<ErrorsOnIssue(errors)>>,
                                 promise |-> "pending"] @@ NoStep
             /\ UNCHANGED field

\* <Form onSubmit={onSubmit}>: the user submits the form.
Submit(present) ==
  /\ SubmitEnabled
  /\ onSubmit(FormValue(present, field))

\* onSubmit, lines 52-64: the continuation once the lookup promise settles.
\* router.push sits inside the try block, so a throw from it lands in catch.
LookupResolves(h, value, pushThrows) ==
  /\ handlers[h].pc = "awaiting"
  /\ LET gameID == handlers[h].gameID
         pushes == IF IsTruthy(value) THEN <<NavigationPath(value, gameID)>> ELSE <<>>
         caught == IsTruthy(value) /\ pushThrows
         errorSets == (IF IsTruthy(value) THEN <<>> ELSE <<ErrorsOnEmptyResult>>)
                      \o (IF caught THEN <<ErrorsOnCatch>> ELSE <<>>)
     IN /\ errors' = LastOf(errorSets, errors)
        /\ isLoading' = LoadingOnFinally
        /\ handlers' = [handlers EXCEPT ![h] = IdleHandler]
        /\ last' = [op |-> "resolve", gameID |-> gameID, pushes |-> pushes,
                    loadingSets |-> <<LoadingOnFinally>>, errorSets |-> errorSets,
                    errorsBefore |-> errors, result |-> value,
                    attemptErrorsBefore |-> handlers[h].errorsAtSubmit,
                    loadingBefore |-> isLoading,
                    pushThrew |-> caught, promise |-> "fulfilled"] @@ NoStep
        /\ UNCHANGED field

\* A catch block that calls getGameMetadata again instead of giving up.
LookupRejectsRetry(h) ==
  /\ handlers[h].pc = "awaiting"
  /\ last' = [op |-> "reject", gameID |-> handlers[h].gameID,
              lookups |-> <<handlers[h].gameID>>, errorsBefore |-> errors,
              attemptErrorsBefore |-> handlers[h].errorsAtSubmit,
              loadingBefore |-> isLoading, promise |-> "pending"] @@ NoStep
  /\ UNCHANGED <<field, isLoading, errors, handlers>>

LookupRejects(h) ==
  /\ handlers[h].pc = "awaiting"
  /\ errors' = ErrorsOnCatch
  /\ isLoading' = LoadingOnFinally
  /\ handlers' = [handlers EXCEPT ![h] = IdleHandler]
  /\ last' = [op |-> "reject", gameID |-> handlers[h].gameID,
              loadingSets |-> <<LoadingOnFinally>>, errorSets |-> <<ErrorsOnCatch>>,
              errorsBefore |-> errors,
              attemptErrorsBefore |-> handlers[h].errorsAtSubmit,
              loadingBefore |-> isLoading, promise |-> "fulfilled"] @@ NoStep
  /\ UNCHANGED field

Next ==
  \/ \E c \in Alphabet : TypeChar(c)
  \/ ClearField
  \/ \E present \in BOOLEAN : Submit(present)
  \/ \E h \in Slots, value \in LookupResults, pushThrows \in BOOLEAN :
       LookupResolves(h, value, pushThrows)
  \/ \E h \in Slots : LookupRejects(h)

Spec == Init /\ [][Next]_vars

\* The lookup promise settles: a pending continuation eventually runs.
FairSpec ==
  Spec /\ WF_vars(\E h \in Slots : LookupRejects(h)
                  \/ \E value \in LookupResults, pushThrows \in BOOLEAN :
                       LookupResolves(h, value, pushThrows))

----------------------------------------------------------------------------
\* onSubmit called as a function, whatever the rendered controls allow: the
\* handler itself has no guard (it never reads isLoading).

\* Field texts set in one go: two valid IDs (one padded, lower case) and a
\* text that fails the shape check.
SampleTexts ==
  { <<"B", "B", "B", "B", "B">>,
    <<" ", "a", "B", "a", "a", "a">>,
    <<"a", "1">> }

PasteText(t) ==
  /\ ~InputIsDisabled
  /\ field # t
  /\ field' = t
  /\ last' = [op |-> "edit"] @@ NoStep
  /\ UNCHANGED <<isLoading, errors, handlers>>

Invoke(present) == onSubmit(FormValue(present, field))

NextDirect ==
  \/ \E t \in SampleTexts : PasteText(t)
  \/ \E present \in BOOLEAN : Invoke(present)
  \/ \E h \in Slots, value \in LookupResults, pushThrows \in BOOLEAN :
       LookupResolves(h, value, pushThrows)
  \/ \E h \in Slots : LookupRejects(h)

SpecDirect == Init /\ [][NextDirect]_vars

----------------------------------------------------------------------------
\* Reading the rendered tree.

RECURSIVE Paths(_)
Paths(e) ==
  {<<>>} \cup UNION {{<<i>> \o p : p \in Paths(e.children[i])} : i \in DOMAIN e.children}

RECURSIVE NodeAt(_, _)
NodeAt(e, p) == IF p = <<>> THEN e ELSE NodeAt(e.children[Head(p)], Tail(p))

IsProperPrefix(p, q) == Len(p) < Len(q) /\ SubSeq(q, 1, Len(p)) = p

\* Some element of type inner is a descendant of some element of type outer.
Encloses(tree, outer, inner) ==
  \E p \in Paths(tree), q \in Paths(tree) :
    /\ NodeAt(tree, p).type = outer
    /\ NodeAt(tree, q).type = inner
    /\ IsProperPrefix(p, q)

RenderedInput == NodeAt(JoinGameButtonView, <<1>>)
RenderedButton == NodeAt(JoinGameButtonView, <<2>>)

\* The upper-case form of each character of the alphabet, written out.
UpperPairs ==
  {<<"a", "A">>, <<"B", "B">>, <<" ", " ">>, <<"1", "1">>}

\* key is text without its leading and trailing white space, each character
\* replaced by its upper-case form.
IsTrimmedUpperOf(key, text) ==
  \E lead \in 0 .. Len(text) :
    /\ lead + Len(key) <= Len(text)
    /\ \A i \in 1 .. lead : text[i] \in WhiteSpace
    /\ \A i \in (lead + Len(key) + 1) .. Len(text) : text[i] \in WhiteSpace
    /\ \A j \in 1 .. Len(key) : <<text[lead + j], key[j]>> \in UpperPairs
    /\ key # <<>> => key[1] \notin WhiteSpace /\ key[Len(key)] \notin WhiteSpace

SettledStep == last.op \in {"resolve", "reject"}

----------------------------------------------------------------------------
\* C1: a submission whose normalized ID fails validateGameID sets the error
\* map to exactly the shape message, issues no lookup, never sets loading
\* and never navigates; every key passed to getGameMetadata is the
\* normalized ID and passed validateGameID.
C1_ShapeGate ==
  last.op = "submit" =>
    /\ ~validateGameID(Normalize(last.form)) =>
         /\ errors = [GameID |-> "Game IDs need to be a 5 letter string."]
         /\ last.lookups = <<>>
         /\ last.loadingSets = <<>>
         /\ last.pushes = <<>>
         /\ Pending = {}
         /\ ~isLoading
    /\ \A i \in DOMAIN last.lookups :
         /\ last.lookups[i] = Normalize(last.form)
         /\ validateGameID(last.lookups[i])

C1_Witness ==
  /\ last.op = "submit"
  /\ last.form.present
  /\ Len(last.form.text) = 5
  /\ ~validateGameID(Normalize(last.form))
  /\ last.errorsBefore = InvalidError
  /\ errors = ShapeError

\* C2: when the lookup resolves with a metadata object the handler calls
\* router.push exactly once in that attempt, with "/" + game_type + "/" +
\* the normalized ID captured at submit time, and loading is false after.
C2_NavigateOnce ==
  /\ last.op = "submit" => last.pushes = <<>>
  /\ (last.op = "resolve" /\ last.result.kind = "object") =>
       /\ Len(last.pushes) = 1
       /\ last.pushes[1] =
            <<"/">>
            \o (IF last.result.has_type THEN last.result.game_type
                ELSE <<"u", "n", "d", "e", "f", "i", "n", "e", "d">>)
            \o <<"/">> \o last.gameID
       /\ IsTrimmedUpperOf(last.gameID, field)
       /\ validateGameID(last.gameID)
       /\ ~isLoading

C2_Witness ==
  /\ last.op = "resolve"
  /\ last.result = [kind |-> "object", has_type |-> TRUE, game_type |-> Trivia]
  /\ field = <<"a", "B", "a", "a", "a", " ">>
  /\ last.pushes = << <<"/", "t", "r", "i", "v", "i", "a", "/", "A", "B", "A", "A", "A">> >>
  /\ ~last.pushThrew
  /\ ~isLoading

\* C3: when the lookup resolves to null or undefined the error map becomes
\* exactly {GameID: "Invalid game ID"}, router.push is not called in that
\* attempt and loading ends false.
C3_EmptyResult ==
  (last.op = "resolve" /\ last.result.kind \in {"null", "undefined"}) =>
    /\ errors = [GameID |-> "Invalid game ID"]
    /\ last.pushes = <<>>
    /\ ~isLoading

C3_Witness ==
  /\ last.op = "resolve"
  /\ last.result.kind = "null"
  /\ last.errorsBefore = EmptyErrors
  /\ errors = InvalidError

\* C4: when the lookup rejects, the rejection is caught (the handler's
\* promise is fulfilled), the error map becomes exactly
\* {GameID: "Invalid game ID"}, loading returns to false and router.push is
\* not called in that attempt.
C4_Rejection ==
  last.op = "reject" =>
    /\ last.promise = "fulfilled"
    /\ errors = [GameID |-> "Invalid game ID"]
    /\ last.pushes = <<>>
    /\ ~isLoading

C4_Witness ==
  /\ last.op = "reject"
  /\ last.errorsBefore = EmptyErrors
  /\ errors = InvalidError
  /\ ~isLoading

\* C5: provided the lookup promise settles, every submission that set
\* loading to true is followed by loading being false again.
C5_LoadingEventuallyReset == isLoading ~> ~isLoading

C5_Witness ==
  /\ SettledStep
  /\ last.loadingSets = <<FALSE>>
  /\ ~isLoading

\* C6: at most one lookup is in flight at any time, and while one is
\* pending the form cannot be submitted.
C6_OneLookupInFlight ==
  /\ Cardinality(Pending) <= 1
  /\ Pending # {} => isLoading /\ ~SubmitEnabled

C6_Witness ==
  /\ Cardinality(Pending) = 1
  /\ ~SubmitEnabled

\* C7: the input and the submit control are disabled exactly when a lookup
\* is in flight, hence enabled again once it has settled.
C7_DisabledIffPending ==
  /\ RenderedInput.props.isDisabled <=> Pending # {}
  /\ RenderedButton.props.isLoading <=> Pending # {}

C7_Witness ==
  /\ SettledStep
  /\ ~RenderedInput.props.isDisabled
  /\ ~RenderedButton.props.isLoading

\* C8: while the lookup of a shape-valid submission is pending the error
\* map is empty, whatever error the previous submission left.
C8_ErrorsClearedWhilePending ==
  Pending # {} => errors = EmptyErrors

C8_Witness ==
  /\ Pending # {}
  /\ last.op = "submit"
  /\ last.errorsBefore = InvalidError
  /\ errors = EmptyErrors

\* C9: the lookup key is the raw field text trimmed and then upper-cased, a
\* missing field normalizes to the empty string, and normalizing a
\* normalized string returns it unchanged.
C9_Normalization ==
  last.op = "submit" =>
    /\ last.form.present => IsTrimmedUpperOf(last.gameID, last.form.text)
    /\ ~last.form.present => last.gameID = <<>>
    /\ Normalize(FormValue(TRUE, Normalize(last.form))) = Normalize(last.form)
    /\ \A i \in DOMAIN last.lookups : last.lookups[i] = last.gameID

C9_Witness ==
  /\ last.op = "submit"
  /\ last.form = [present |-> TRUE, text |-> <<" ", "a", "B", "a", "a", "a">>]
  /\ last.lookups = << <<"A", "B", "A", "A", "A">> >>

\* C10 as stated: theming encloses toast, toast encloses the user context,
\* the user context encloses the game context, which encloses the children.
C10_Original ==
  /\ Encloses(AppView, "HeroUIProvider", "ToastProvider")
  /\ Encloses(AppView, "ToastProvider", "UserProvider")
  /\ Encloses(AppView, "UserProvider", "GameProvider")
  /\ Encloses(AppView, "GameProvider", "Form")
  /\ Encloses(AppView, "ToastProvider", "Form")

\* C10 amended: theming encloses a childless toast element followed by the
\* user context; the user context encloses the game context, whose children
\* are exactly the children given; the children are descendants of theming,
\* user and game context and not of the toast element.
C10_Nesting ==
  /\ AppView.type = "HeroUIProvider"
  /\ Len(AppView.children) = 2
  /\ NodeAt(AppView, <<1>>).type = "ToastProvider"
  /\ NodeAt(AppView, <<1>>).children = <<>>
  /\ NodeAt(AppView, <<2>>).type = "UserProvider"
  /\ Len(NodeAt(AppView, <<2>>).children) = 1
  /\ NodeAt(AppView, <<2, 1>>).type = "GameProvider"
  /\ NodeAt(AppView, <<2, 1>>).children = <<JoinGameButtonView>>
  /\ Encloses(AppView, "HeroUIProvider", "Form")
  /\ Encloses(AppView, "UserProvider", "Form")
  /\ Encloses(AppView, "GameProvider", "Form")
  /\ ~Encloses(AppView, "ToastProvider", "Form")
  /\ ~Encloses(AppView, "ToastProvider", "UserProvider")

C10_Witness ==
  /\ NodeAt(AppView, <<2, 1, 1>>).type = "Form"
  /\ NodeAt(AppView, <<2, 1, 1>>).props.validationErrors = ShapeError
  /\ NodeAt(AppView, <<2, 1, 1, 1>>).type = "Input"

\* C11: loading is true exactly in the states where a lookup is in flight:
\* false initially, turned true only by a validated submission issuing its
\* lookup, false whenever nothing is pending.
C11_LoadingIffPending ==
  /\ isLoading <=> Pending # {}
  /\ last.op = "mount" => ~isLoading
  /\ (isLoading /\ ~last.loadingBefore) =>
       /\ last.op = "submit"
       /\ validateGameID(last.gameID)
       /\ last.lookups = <<last.gameID>>

C11_Witness ==
  /\ last.op = "submit"
  /\ ~last.loadingBefore
  /\ isLoading
  /\ Cardinality(Pending) = 1

\* C12: the form is always Idle (not loading, no error), Submitting
\* (loading, no error) or Error (not loading, some error), starting Idle;
\* loading with a non-empty error map is unreachable, and in every Error
\* state the form can be submitted again.
C12_ThreeStates ==
  LET Idle == ~isLoading /\ errors = EmptyErrors
      Submitting == isLoading /\ errors = EmptyErrors
      Error == ~isLoading /\ errors # EmptyErrors
  IN /\ Idle \/ Submitting \/ Error
     /\ ~(isLoading /\ errors # EmptyErrors)
     /\ last.op = "mount" => Idle
     /\ Error => ENABLED (\E present \in BOOLEAN : Submit(present))

C12_Witness ==
  /\ last.op = "submit"
  /\ last.errorsBefore = ShapeError
  /\ isLoading
  /\ errors = EmptyErrors

\* C13: the error map is always empty or the single key GameID with one of
\* the two messages, and after each step of a submit attempt its content is
\* decided by that attempt's outcome alone, not by what it held before.
C13_ErrorsReplaced ==
  /\ DOMAIN errors \subseteq {"GameID"}
  /\ errors # EmptyErrors =>
       errors.GameID \in {"Game IDs need to be a 5 letter string.", "Invalid game ID"}
  /\ last.op = "submit" =>
       errors = IF validateGameID(last.gameID) THEN EmptyErrors ELSE ShapeError
  /\ last.op = "resolve" =>
       errors = IF last.result.kind = "object" /\ ~last.pushThrew
                THEN EmptyErrors ELSE InvalidError
  /\ last.op = "reject" => errors = InvalidError

C13_Witness ==
  /\ last.op = "resolve"
  /\ last.result.kind = "object"
  /\ ~last.pushThrew
  /\ last.attemptErrorsBefore = InvalidError
  /\ errors = EmptyErrors

\* C14: no retry: a handler stretch issues at most one lookup, only the
\* stretch started by a submission issues one, and once a lookup has
\* settled the attempt is over with nothing left pending.
C14_NoRetry ==
  /\ Len(last.lookups) <= 1
  /\ last.lookups # <<>> => last.op = "submit"
  /\ SettledStep => Pending = {} /\ last.promise = "fulfilled"

C14_Witness ==
  /\ last.op = "reject"
  /\ last.attemptErrorsBefore = ShapeError
  /\ last.lookups = <<>>
  /\ Pending = {}

\* C15: onSubmit does not read the loading flag: called with a valid ID
\* while a lookup is pending it issues a second lookup, and whichever
\* lookup settles first sets loading to false with the other in flight.
C15_NoGuardInHandler ==
  /\ FreeSlots # {} => ENABLED Invoke(TRUE)
  /\ (last.op = "submit" /\ validateGameID(last.gameID)) =>
       /\ last.lookups = <<last.gameID>>
       /\ \E h \in Pending : handlers[h].gameID = last.gameID
       /\ isLoading
  /\ SettledStep => ~isLoading

C15_Witness ==
  /\ SettledStep
  /\ Pending # {}
  /\ ~isLoading

\* C16: router.push is inside the try block: when it throws after a lookup
\* that found the game, the throw is caught, the error map becomes
\* {GameID: "Invalid game ID"}, loading is false and the handler's promise
\* is fulfilled.
C16_PushThrowCaught ==
  (last.op = "resolve" /\ last.pushThrew) =>
    /\ last.result.kind = "object"
    /\ Len(last.pushes) = 1
    /\ errors = [GameID |-> "Invalid game ID"]
    /\ ~isLoading
    /\ last.promise = "fulfilled"

C16_Witness ==
  /\ last.op = "resolve"
  /\ last.pushThrew
  /\ last.result.kind = "object"
  /\ last.result.has_type
  /\ errors = InvalidError

\* C17: when router.push returns normally, an attempt that navigated leaves
\* the error map empty and loading false, a stretch that set an error
\* message made no push, and a shape-invalid attempt leaves loading as it
\* was.
C17_NavigateXorError ==
  /\ (last.op = "resolve" /\ last.pushes # <<>> /\ ~last.pushThrew) =>
       /\ errors = EmptyErrors
       /\ ~isLoading
       /\ \A i \in DOMAIN last.errorSets : last.errorSets[i] = EmptyErrors
  /\ (~last.pushThrew /\ \E i \in DOMAIN last.errorSets : last.errorSets[i] # EmptyErrors) =>
       last.pushes = <<>>
  /\ (last.op = "submit" /\ ~validateGameID(last.gameID)) =>
       /\ isLoading = last.loadingBefore
       /\ last.pushes = <<>>

C17_Witness ==
  /\ last.op = "resolve"
  /\ last.pushes # <<>>
  /\ ~last.pushThrew
  /\ last.attemptErrorsBefore = ShapeError
  /\ errors = EmptyErrors
  /\ ~isLoading

====
